---- MODULE Spec2Model ----
(***************************************************************************)
(* The live-session controller of the RFSN dashboard: RFSNApp (ui/app.js). *)
(* One browser thread: user clicks, settled fetch() promises, WebSocket    *)
(* events and interval callbacks run one at a time, each to completion (or *)
(* to its next await).  Every action below is one such run.                *)
(***************************************************************************)
EXTENDS Integers, Sequences, FiniteSets, TLC

(***************************************************************************)
(* Bounds of the exploration.                                              *)
(***************************************************************************)
MaxRuns == 6          \* handler runs that Spec follows
RestartRuns == 11     \* handler runs that SpecRestart follows
MaxSessions == 3      \* accepted startAgent() calls
MaxRandomDraws == 1   \* Math.random() calls of a simulation whose result is left open
EventRuns == 8        \* handler runs that SpecEvents follows
SimulationSeconds == 33  \* seconds of Date.now() that SpecSimulation follows
LogRuns == 104        \* handler runs that SpecLog follows
LogMarks == 1         \* error entries in the log at a time in SpecLog
PersistRuns == 8      \* handler runs that SpecPersistence follows
HistoryRuns == 6      \* operations that SpecHistory follows
MaxDays == 32         \* days the wall clock moves ahead in SpecHistory

(***************************************************************************)
(* Program constants.                                                      *)
(***************************************************************************)
NULL == 0             \* null: ids and Date.now() values are all >= 1
TotalSteps == 30
PhaseEvery == 3
LogEvery == 2
PatchEvery == 5
LogCapacity == 100

\* A phase list with two phases out of order.
phasesSwapped == <<"INGEST", "LOCALIZE", "PATCH", "PLAN", "TEST", "DIAGNOSE", "FINALIZE">>

phases == <<"INGEST", "LOCALIZE", "PLAN", "PATCH", "TEST", "DIAGNOSE", "FINALIZE">>

messages ==
    << "Analyzing repository structure...",
       "Running localization layers...",
       "Found 5 potential bug locations",
       "Generating patch candidates...",
       "Testing patch #1...",
       "Patch validation successful",
       "Running test suite..." >>

VARIABLES
    config,           \* this.config
    isRunning,        \* this.isRunning
    startTime,        \* this.startTime
    timerInterval,    \* this.timerInterval: id of the elapsed-time interval
    websocket,        \* this.websocket: id of a socket
    log,              \* children of #logContainer: <<[level, message]>>
    currentPhase,     \* #currentPhase.textContent
    stepsCompleted,   \* #stepsCompleted.textContent
    patchesTried,     \* #patchesTried.textContent
    progressFill,     \* #progressFill.style.width, a fraction <<num, den>> of percent
    elapsedTime,      \* #elapsedTime.textContent, <<minutes, seconds>>
    status,           \* #statusText / #statusDot
    startBtnDisabled, \* #startBtn.disabled (stopBtn, pauseBtn hold the negation)
    activeTab,        \* the tab last clicked
    notification,     \* the notification last shown
    now,              \* Date.now(), in seconds
    intervals,        \* active setInterval()s in the order they fire next
    startReqs,        \* sessions whose fetch(/api/start) is outstanding
    stopReqs,         \* outstanding fetch(/api/stop)s, each with its session
    sockets,          \* readyState of the WebSocket each session created
    sims,             \* closure of each session's runSimulation()
    nSessions,        \* accepted startAgent() calls so far
    nOps,             \* handler runs so far
    completed,        \* sessions whose event source had a complete event handled
    quickStopped,     \* sessions stopped while their start request was outstanding
    tornDown,         \* sessions that were Running when a complete event was handled
    cancelled,        \* sessions whose simulation was under way when stopAgent() cleaned up
    taskHistory,      \* enhancements.taskHistory
    form,             \* the config form, as applyConfig() last filled it
    historyContent,   \* #historyContent: the tasks renderHistory() last rendered
    toast,            \* the toast last shown
    rfsn_progress,    \* localStorage rfsn_progress: the snapshot of saveProgress()
    rfsn_persistence, \* localStorage rfsn_persistence
    rfsn_retention,   \* localStorage rfsn_retention
    rfsn_history,     \* localStorage rfsn_history
    resume,           \* how restoreProgress() ended when the page was loaded
    ignoredStop,      \* the handler that ran last was a stopAgent() that returned at once
    ignoredFrame      \* the handler that ran last was an onmessage that no case took

appVars == <<config, isRunning, startTime, timerInterval, websocket>>
domVars == <<log, currentPhase, stepsCompleted, patchesTried, progressFill,
             elapsedTime, status, startBtnDisabled, activeTab, notification>>
envVars == <<now, intervals, startReqs, stopReqs, sockets, sims>>
cntVars == <<nSessions>>
histVars == <<taskHistory>>
storageVars == <<rfsn_progress, rfsn_persistence, rfsn_retention, rfsn_history>>
enhVars == <<form, historyContent, toast, storageVars, resume>>
obsVars == <<completed, quickStopped, tornDown, cancelled, ignoredStop, ignoredFrame>>
vars == <<appVars, domVars, envVars, histVars, enhVars, cntVars, obsVars, nOps>>

\* Ids of sessions, of their sockets and of their intervals.
Sessions == 1..MaxSessions

(***************************************************************************)
(* Pure helpers.                                                           *)
(***************************************************************************)
RECURSIVE Gcd(_, _)
Gcd(a, b) == IF b = 0 THEN a ELSE Gcd(b, a % b)

\* A non-negative fraction in lowest terms.
Frac(n, d) == LET g == Gcd(n, d) IN <<n \div g, d \div g>>

BoolStr(b) == IF b THEN "true" ELSE "false"

\* addLog: append one entry, then drop from the front down to the capacity.
RECURSIVE DropOldest(_)
DropOldest(l) == IF Len(l) > LogCapacity THEN DropOldest(Tail(l)) ELSE l

\* An addLog that refuses new entries once the container is full.
addLogKeepsOldest(l, level, message) ==
    IF Len(l) >= LogCapacity THEN l
    ELSE Append(l, [level |-> level, message |-> message])

addLog(l, level, message) ==
    DropOldest(Append(l, [level |-> level, message |-> message]))

\* clearLog: empty the container, then log that it was cleared.
clearLog(l) == addLog(<<>>, "info", <<"Log cleared">>)

\* The form as gatherConfig() reads it; only the fields the controller uses.
Configs ==
    LET all == [repoUrl : {"", "r1", "r2"}, problemStatement : {"", "p"},
                llmApiKey : {"", "k"}, profile : {"balanced"},
                maxSteps : {"12"}, maxTime : {"30"}]
        Missing(c) == Cardinality({f \in {"repoUrl", "problemStatement", "llmApiKey"} :
                                      c[f] = ""})
    IN { c \in all : /\ Missing(c) \in {0, 1, 3}
                     /\ c.repoUrl = "r2" => Missing(c) = 0 }

\* validateConfig's errors, in the order it pushes them.
ValidationErrors(c) ==
    (IF c.repoUrl = "" THEN <<"Repository URL is required">> ELSE <<>>)
    \o (IF c.problemStatement = "" THEN <<"Problem statement is required">> ELSE <<>>)
    \o (IF c.llmApiKey = "" THEN <<"LLM API key is required">> ELSE <<>>)

\* A validateConfig that forgets the API key.
validateConfigNoKey(c) == c.repoUrl # "" /\ c.problemStatement # ""

validateConfig(c) == ValidationErrors(c) = <<>>

RECURSIVE LogErrors(_, _)
LogErrors(l, errs) ==
    IF errs = <<>> THEN l
    ELSE LogErrors(addLog(l, "error", <<Head(errs)>>), Tail(errs))

ValidConfigs == { c \in Configs : validateConfig(c) }

\* setInterval / clearInterval on the list of active intervals.
Interval(kind, id) == [kind |-> kind, id |-> id]
setInterval(q, e) == Append(q, e)
clearInterval(q, e) == SelectSeq(q, LAMBDA x : x # e)
\* The interval at the head fires and is due again after all the others.
Rotate(q) == Append(Tail(q), Head(q))
Due(kind) == intervals # <<>> /\ Head(intervals).kind = kind

\* A closure of runSimulation(); wasRunning records isRunning at its creation.
NoSim == [state |-> "none", phaseIndex |-> 0, step |-> 0, wasRunning |-> FALSE]

\* What the constructors leave in memory and in the page; config {} reads as
\* every field empty.
Constructed ==
    /\ config = [repoUrl |-> "", problemStatement |-> "", llmApiKey |-> "",
                 profile |-> "balanced", maxSteps |-> "12", maxTime |-> "30"]
    /\ isRunning = FALSE
    /\ startTime = NULL
    /\ timerInterval = NULL
    /\ websocket = NULL
    /\ log = <<>>
    /\ currentPhase = "-"
    /\ stepsCompleted = <<"0", "0">>
    /\ patchesTried = 0
    /\ progressFill = <<0, 1>>
    /\ elapsedTime = <<0, 0>>
    /\ status = "idle"
    /\ startBtnDisabled = FALSE
    /\ activeTab = "config"
    /\ notification = <<"", "">>
    /\ now = 1
    /\ intervals = <<Interval("clock", 0)>>
    /\ startReqs = {}
    /\ stopReqs = <<>>
    /\ sockets = [s \in Sessions |-> "none"]
    /\ sims = [s \in Sessions |-> NoSim]
    /\ nSessions = 0
    /\ nOps = 0
    /\ completed = {}
    /\ quickStopped = {}
    /\ tornDown = {}
    /\ cancelled = {}
    /\ taskHistory = <<>>
    /\ ignoredStop = FALSE
    /\ ignoredFrame = FALSE
    /\ form = [repoUrl |-> "", problemStatement |-> "", llmApiKey |-> "",
               profile |-> "balanced", maxSteps |-> "12", maxTime |-> "30"]
    /\ historyContent = <<>>
    /\ toast = <<"", "">>

\* localStorage.getItem() of a key that was never set: null.  NoItem for the
\* items that hold JSON, Unset for the settings, NoString for a setting that
\* is read character by character.
NoItem == [item |-> "null"]
Unset == "null"
NoString == <<"null">>

\* The page is loaded for the first time: nothing is stored.
Init ==
    /\ Constructed
    /\ rfsn_progress = NoItem
    /\ rfsn_persistence = Unset
    /\ rfsn_retention = NoString
    /\ rfsn_history = NoItem
    /\ resume = "none"

(***************************************************************************)
(* cleanupAfterRun(), on log l and interval list q.                        *)
(***************************************************************************)
\* WebSocket.close(): a socket still connecting fails (error, then close).
close(socks, ws) ==
    [socks EXCEPT ![ws] = CASE @ = "connecting" -> "aborted"
                            [] @ = "open" -> "closing"
                            [] OTHER -> @]

\* A cleanupAfterRun() that forgets clearInterval().
CleanupIntervalsLeaked(q) == q

CleanupIntervals(q) ==
    IF timerInterval # NULL THEN clearInterval(q, Interval("elapsed", timerInterval)) ELSE q

\* A cleanupAfterRun() that forgets websocket.close().
CleanupSocketsLeaked == sockets

CleanupSockets == IF websocket # NULL THEN close(sockets, websocket) ELSE sockets

cleanupAfterRun(l, q) ==
    /\ isRunning' = FALSE
    /\ timerInterval' = NULL
    /\ intervals' = CleanupIntervals(q)
    /\ sockets' = CleanupSockets
    /\ websocket' = NULL
    /\ startBtnDisabled' = FALSE
    /\ status' = "idle"
    /\ log' = addLog(l, "info", <<"Agent stopped">>)

(***************************************************************************)
(* startAgent(), up to its await; cfg is what gatherConfig() returns.      *)
(***************************************************************************)
\* A startAgent() without its guard on isRunning.
AlreadyRunningNever == FALSE

AlreadyRunning == isRunning

StartLog(cfg) ==
    addLog(addLog(addLog(addLog(clearLog(log),
        "info", <<"Starting RFSN Agent...">>),
        "info", <<"Repository: ", cfg.repoUrl>>),
        "info", <<"Profile: ", cfg.profile>>),
        "info", <<"Max Steps: ", cfg.maxSteps, ", Max Time: ", cfg.maxTime, " minutes">>)

startAgent(cfg) ==
    IF ~validateConfig(cfg) THEN
        /\ log' = LogErrors(log, ValidationErrors(cfg))
        /\ notification' = <<"Configuration errors. Check log.", "error">>
        /\ UNCHANGED <<appVars, currentPhase, stepsCompleted, patchesTried,
                       progressFill, elapsedTime, status, startBtnDisabled,
                       activeTab, envVars, nSessions,
                       completed, quickStopped, cancelled, tornDown, taskHistory, enhVars>>
    ELSE IF AlreadyRunning THEN
        /\ notification' = <<"Agent is already running", "warning">>
        /\ UNCHANGED <<appVars, log, currentPhase, stepsCompleted, patchesTried,
                       progressFill, elapsedTime, status, startBtnDisabled,
                       activeTab, envVars, cntVars, completed, quickStopped, cancelled, tornDown, taskHistory, enhVars>>
    ELSE
        /\ nSessions' = nSessions + 1
        /\ config' = cfg
        /\ isRunning' = TRUE
        /\ startTime' = now
        /\ startBtnDisabled' = TRUE
        /\ status' = "running"
        /\ activeTab' = "process"
        /\ log' = StartLog(cfg)
        \* startTimer()
        /\ timerInterval' = nSessions'
        /\ intervals' = setInterval(intervals, Interval("elapsed", nSessions'))
        \* fetch('/api/start'): the rest of startAgent() runs when it settles
        /\ startReqs' = startReqs \cup {nSessions'}
        /\ UNCHANGED <<websocket, currentPhase, stepsCompleted, patchesTried,
                       progressFill, elapsedTime, notification, now, stopReqs,
                       sockets, sims,
                       completed, quickStopped, cancelled, tornDown, taskHistory, enhVars>>

(***************************************************************************)
(* startAgent() after its await: the start request of session s settles.   *)
(***************************************************************************)
StartOutcomes == {"ok", "non2xx", "network"}

ErrorMessage(outcome) ==
    IF outcome = "non2xx" THEN <<"Server returned ", "500">> ELSE <<"Failed to fetch">>

\* A catch block that logs the fallback and never calls runSimulation().
runSimulationSkipped(s) == UNCHANGED <<sims, intervals>>

\* runSimulation(): a new closure and its interval.
runSimulation(s) ==
    /\ sims' = [sims EXCEPT ![s] = [state |-> "active", phaseIndex |-> 0, step |-> 0,
                                    wasRunning |-> isRunning]]
    /\ intervals' = setInterval(intervals, Interval("sim", s))

\* connectWebSocket(taskId); throws says whether the WebSocket constructor throws.
connectWebSocket(s, l, throws) ==
    IF throws THEN
        /\ log' = addLog(l, "warning", <<"Could not connect WebSocket, using simulation">>)
        /\ UNCHANGED <<websocket, sockets>>
    ELSE
        /\ websocket' = s
        /\ sockets' = [sockets EXCEPT ![s] = "connecting"]
        /\ log' = l

startSettled(s, outcome, throws) ==
    /\ s \in startReqs
    /\ startReqs' = startReqs \ {s}
    /\ IF outcome = "ok" THEN
          /\ connectWebSocket(s,
                 addLog(log, "success",
                        <<"Agent started successfully. Task ID: ", ToString(s)>>),
                 throws)
          /\ UNCHANGED <<intervals, sims>>
       ELSE
          /\ throws = FALSE
          /\ log' = addLog(addLog(log,
                 "error", <<"Failed to start agent: ">> \o ErrorMessage(outcome)),
                 "warning", <<"Running in simulation mode (backend not available)">>)
          /\ runSimulation(s)
          /\ UNCHANGED <<websocket, sockets>>
    /\ UNCHANGED <<config, isRunning, startTime, timerInterval, currentPhase,
                   stepsCompleted, patchesTried, progressFill, elapsedTime, status,
                   startBtnDisabled, activeTab, notification, now, stopReqs,
                   cntVars, completed, quickStopped, cancelled, tornDown, taskHistory, enhVars>>

(***************************************************************************)
(* stopAgent(), up to its await, and after it.                             *)
(***************************************************************************)
\* A stopAgent() without its guard on isRunning.
NotRunningNever == FALSE

NotRunning == ~isRunning

stopAgent ==
    IF NotRunning THEN
        /\ ignoredStop' = TRUE
        /\ UNCHANGED <<appVars, domVars, envVars, cntVars, completed, quickStopped, cancelled,
                       tornDown, taskHistory, enhVars>>
    ELSE
        /\ log' = addLog(log, "warning", <<"Stopping agent...">>)
        \* fetch('/api/stop'): the rest of stopAgent() runs when it settles
        /\ stopReqs' = Append(stopReqs, nSessions)
        /\ ignoredStop' = FALSE
        /\ quickStopped' = IF nSessions \in startReqs
                           THEN quickStopped \cup {nSessions} ELSE quickStopped
        /\ UNCHANGED <<appVars, currentPhase, stepsCompleted, patchesTried,
                       progressFill, elapsedTime, status, startBtnDisabled, activeTab,
                       notification, now, intervals, startReqs, sockets, sims,
                       cntVars, completed, tornDown, cancelled, taskHistory, enhVars>>

RemoveAt(q, i) == SubSeq(q, 1, i - 1) \o SubSeq(q, i + 1, Len(q))

stopSettled(i, ok) ==
    /\ i \in DOMAIN stopReqs
    /\ stopReqs' = RemoveAt(stopReqs, i)
    /\ cleanupAfterRun(
          IF ok THEN addLog(log, "info", <<"Stop signal sent to agent">>)
          ELSE addLog(log, "warning", <<"Could not reach backend, stopping locally">>),
          intervals)
    /\ UNCHANGED <<config, startTime, currentPhase, stepsCompleted, patchesTried,
                   progressFill, elapsedTime, activeTab, notification, now,
                   startReqs, sims, cntVars, completed, quickStopped, tornDown,
                   taskHistory, enhVars>>
    /\ cancelled' = cancelled \cup { s \in Sessions : /\ sims[s].state = "active"
                                                      /\ sims[s].step >= 1 }

(***************************************************************************)
(* Event handlers: updatePhase, updateProgress, handleTaskComplete.        *)
(***************************************************************************)
\* `${data[f]}` in a template string.
Text(data, f) == IF f \in DOMAIN data THEN ToString(data[f]) ELSE "undefined"

StepsAfter(data) ==
    IF "steps" \in DOMAIN data
    THEN <<Text(data, "current_step"), Text(data, "total_steps")>>
    ELSE stepsCompleted

PatchesAfter(data) == IF "patches" \in DOMAIN data THEN data.patches ELSE patchesTried

ProgressAfter(data) == IF "progress" \in DOMAIN data THEN data.progress ELSE progressFill

updateProgress(data) ==
    /\ stepsCompleted' = StepsAfter(data)
    /\ patchesTried' = PatchesAfter(data)
    /\ progressFill' = ProgressAfter(data)

\* handleTaskComplete(data), called from the event source of session s.
handleTaskComplete(data, s, l, q) ==
    /\ cleanupAfterRun(
          addLog(addLog(addLog(l,
              "success", <<"Task completed!">>),
              "info", <<"Success: ", BoolStr(data.success)>>),
              "info", <<"Time: ", ToString(data.time_taken), "s">>),
          q)
    /\ notification' = <<"Task completed!", "success">>
    /\ activeTab' = "results"
    /\ completed' = completed \cup {s}
    /\ tornDown' = IF isRunning THEN tornDown \cup {nSessions} ELSE tornDown
    \* nothing here reaches enhancements.addToHistory()
    /\ UNCHANGED <<taskHistory, enhVars>>

(***************************************************************************)
(* The WebSocket of session s: onopen, onmessage, onerror, onclose.        *)
(***************************************************************************)
\* What JSON.parse makes of the frames the exploration sends.
Payloads ==
    [type : {"phase"}, phase : {"PLAN", "TEST"}]
    \cup [type : {"log"}, level : {"info"}, message : {"m"}]
    \cup [type : {"progress"}, patches : {2}]
    \cup [type : {"progress"}, current_step : {5}]
    \cup [type : {"progress"}, steps : {5}, current_step : {5}, total_steps : {9}]
    \cup [type : {"progress"}, progress : {<<50, 1>>}]
    \cup [type : {"complete"}, success : BOOLEAN, time_taken : {7}]
    \cup [type : {"error"}, message : {"e"}]
    \cup [type : {"bogus"}]
    \cup [note : {"no type"}]

Frames == [json : {TRUE}, data : Payloads] \cup {[json |-> FALSE]}

TypeOf(data) == IF "type" \in DOMAIN data THEN data.type ELSE "undefined"

\* The cases of the switch in handleWebSocketMessage.
KnownTypes == {"phase", "log", "progress", "complete", "error"}

\* A case 'error' that ends the session.
caseErrorTerminal(data) ==
    /\ cleanupAfterRun(addLog(log, "error", <<data.message>>), intervals)
    /\ UNCHANGED <<currentPhase, stepsCompleted, patchesTried, progressFill,
                   activeTab, notification, completed, tornDown, taskHistory, enhVars>>

\* case 'error': the message is logged.
caseError(data) ==
    /\ log' = addLog(log, "error", <<data.message>>)
    /\ UNCHANGED <<isRunning, timerInterval, websocket, currentPhase,
                   stepsCompleted, patchesTried, progressFill, status,
                   startBtnDisabled, activeTab, notification, intervals,
                   sockets, completed, tornDown, taskHistory, enhVars>>

\* An updatePhase() that never goes back in the phase list.
updatePhaseForward(phase) ==
    LET IndexOf(ph) == IF \E k \in DOMAIN phases : phases[k] = ph
                       THEN CHOOSE k \in DOMAIN phases : phases[k] = ph ELSE 0
    IN currentPhase' = IF IndexOf(phase) > IndexOf(currentPhase)
                       THEN phase ELSE currentPhase

\* updatePhase(phase): the text of #currentPhase is overwritten.
updatePhase(phase) == currentPhase' = phase

handleWebSocketMessage(data, s) ==
    CASE TypeOf(data) = "phase" ->
            /\ updatePhase(data.phase)
            /\ log' = addLog(log, "info", <<"Phase: ", data.phase>>)
            /\ UNCHANGED <<isRunning, timerInterval, websocket, stepsCompleted,
                           patchesTried, progressFill, status, startBtnDisabled,
                           activeTab, notification, intervals, sockets,
                           completed, tornDown, taskHistory, enhVars>>
      [] TypeOf(data) = "log" ->
            /\ log' = addLog(log, data.level, <<data.message>>)
            /\ UNCHANGED <<isRunning, timerInterval, websocket, currentPhase,
                           stepsCompleted, patchesTried, progressFill, status,
                           startBtnDisabled, activeTab, notification, intervals,
                           sockets, completed, tornDown, taskHistory, enhVars>>
      [] TypeOf(data) = "progress" ->
            /\ updateProgress(data)
            /\ UNCHANGED <<isRunning, timerInterval, websocket, log, currentPhase,
                           status, startBtnDisabled, activeTab, notification,
                           intervals, sockets, completed, tornDown, taskHistory, enhVars>>
      [] TypeOf(data) = "complete" ->
            /\ handleTaskComplete(data, s, log, intervals)
            /\ UNCHANGED <<currentPhase, stepsCompleted, patchesTried, progressFill>>
      [] TypeOf(data) = "error" -> caseError(data)
      [] OTHER ->
            UNCHANGED <<isRunning, timerInterval, websocket, log, currentPhase,
                        stepsCompleted, patchesTried, progressFill, status,
                        startBtnDisabled, activeTab, notification, intervals,
                        sockets, completed, tornDown, taskHistory, enhVars>>

onopen(s) ==
    /\ sockets[s] = "connecting"
    /\ sockets' = [sockets EXCEPT ![s] = "open"]
    /\ log' = addLog(log, "success", <<"Connected to live updates">>)
    /\ UNCHANGED <<appVars, currentPhase, stepsCompleted, patchesTried, progressFill,
                   elapsedTime, status, startBtnDisabled, activeTab, notification,
                   now, intervals, startReqs, stopReqs, sims, cntVars,
                   completed, quickStopped, cancelled, tornDown, taskHistory, enhVars>>

\* A JSON.parse whose exception ends the session.
parseThrowsTerminal ==
    /\ cleanupAfterRun(log, intervals)
    /\ UNCHANGED <<currentPhase, stepsCompleted, patchesTried, progressFill,
                   activeTab, notification, completed, tornDown, taskHistory, enhVars>>

\* JSON.parse(event.data) throws on a non-JSON payload: nothing catches the
\* exception, it leaves the handler and the rest of the handler is skipped.
parseThrows ==
    UNCHANGED <<isRunning, timerInterval, websocket, log, currentPhase,
                stepsCompleted, patchesTried, progressFill, status,
                startBtnDisabled, activeTab, notification, intervals,
                sockets, completed, tornDown, taskHistory, enhVars>>

\* A frame arrives on an open socket.
onmessage(s, frame) ==
    /\ sockets[s] = "open"
    /\ IF frame.json THEN handleWebSocketMessage(frame.data, s) ELSE parseThrows
    /\ ignoredFrame' = (~frame.json \/ TypeOf(frame.data) \notin KnownTypes)
    /\ UNCHANGED <<config, startTime, elapsedTime, now, startReqs, stopReqs, sims,
                   nSessions, quickStopped, cancelled>>

\* The connection fails (or close() was called before it was established).
onerror(s) ==
    /\ sockets[s] \in {"connecting", "open", "aborted"}
    /\ sockets' = [sockets EXCEPT ![s] = "errored"]
    /\ log' = addLog(log, "error", <<"WebSocket error, falling back to polling">>)
    /\ websocket' = NULL
    /\ UNCHANGED <<config, isRunning, startTime, timerInterval, currentPhase,
                   stepsCompleted, patchesTried, progressFill, elapsedTime, status,
                   startBtnDisabled, activeTab, notification, now, intervals,
                   startReqs, stopReqs, sims, cntVars, completed, quickStopped, cancelled,
                   tornDown, taskHistory, enhVars>>

\* The connection closes: after close(), after an error, or by the server.
onclose(s) ==
    /\ sockets[s] \in {"open", "closing", "errored"}
    /\ sockets' = [sockets EXCEPT ![s] = "closed"]
    /\ log' = addLog(log, "info", <<"Live updates disconnected">>)
    /\ UNCHANGED <<appVars, currentPhase, stepsCompleted, patchesTried, progressFill,
                   elapsedTime, status, startBtnDisabled, activeTab, notification,
                   now, intervals, startReqs, stopReqs, sims, cntVars,
                   completed, quickStopped, cancelled, tornDown, taskHistory, enhVars>>

(***************************************************************************)
(* Interval callbacks.  All intervals but the snapshot's have a period of  *)
(* one second, so they fire in rotation; a new interval fires first after  *)
(* every interval that is already active.  The wall clock is one more      *)
(* entry of the rotation: it marks where a second of Date.now() ends.      *)
(***************************************************************************)
FracMin(a, b) == IF a[1] * b[2] <= b[1] * a[2] THEN a ELSE b

\* A progress that shows what is left to do.
SimProgressRemaining(step) == Frac((TotalSteps - step) * 100, TotalSteps)

\* Math.min((step / 30) * 100, 100)
SimProgress(step) == FracMin(Frac(step * 100, TotalSteps), <<100, 1>>)


clockTick ==
    /\ Due("clock")
    /\ now' = now + 1
    /\ intervals' = Rotate(intervals)
    /\ UNCHANGED <<appVars, domVars, startReqs, stopReqs, sockets, sims, cntVars,
                   completed, quickStopped, cancelled, tornDown, taskHistory, enhVars>>

\* The callback of startTimer().
Elapsed == now - startTime

elapsedTick ==
    /\ Due("elapsed")
    /\ elapsedTime' = IF startTime # NULL
                      THEN <<Elapsed \div 60, Elapsed % 60>> ELSE elapsedTime
    /\ intervals' = Rotate(intervals)
    /\ UNCHANGED <<appVars, log, currentPhase, stepsCompleted, patchesTried,
                   progressFill, status, startBtnDisabled, activeTab, notification,
                   now, startReqs, stopReqs, sockets, sims, cntVars,
                   completed, quickStopped, cancelled, tornDown, taskHistory, enhVars>>

\* The callback of runSimulation()'s interval; i is the message that
\* Math.floor(Math.random() * messages.length) picks (from 1).
SimStopped == ~isRunning

\* A simulation that completes one tick late.
SimDoneLate(step) == step > TotalSteps

\* Complete after 30 steps.
SimDone(step) == step >= TotalSteps

simulationTick(i) ==
    /\ Due("sim")
    /\ LET me == Head(intervals)
           s == me.id
           sim == sims[s]
       IN
       IF SimStopped THEN
           /\ intervals' = clearInterval(intervals, me)
           /\ sims' = [sims EXCEPT ![s].state = "cleared"]
           /\ UNCHANGED <<appVars, domVars, now, startReqs, stopReqs, sockets,
                          cntVars, completed, quickStopped, cancelled, tornDown, taskHistory, enhVars>>
       ELSE
           LET enter == sim.step % PhaseEvery = 0 /\ sim.phaseIndex < Len(phases)
               phase == phases[sim.phaseIndex + 1]
               l1 == IF enter
                     THEN addLog(log, "info", <<"Entering phase: ", phase>>) ELSE log
               step == sim.step + 1
               data == [current_step |-> step, total_steps |-> TotalSteps,
                        patches |-> step \div PatchEvery,
                        progress |-> SimProgress(step)]
               chatty == step % LogEvery = 0
               done == SimDone(step)
           IN
               LET l2 == IF chatty THEN addLog(l1, "info", <<messages[i]>>) ELSE l1
               IN
               /\ currentPhase' = IF enter THEN phase ELSE currentPhase
               /\ updateProgress(data)
               /\ sims' = [sims EXCEPT
                             ![s].phaseIndex = IF enter THEN @ + 1 ELSE @,
                             ![s].step = step,
                             ![s].state = IF done THEN "cleared" ELSE @]
               /\ IF done THEN
                     /\ handleTaskComplete(
                           [success |-> TRUE, time_taken |-> Elapsed], s, l2,
                           clearInterval(Rotate(intervals), me))
                  ELSE
                     /\ log' = l2
                     /\ intervals' = Rotate(intervals)
                     /\ UNCHANGED <<isRunning, timerInterval, websocket, status,
                                    startBtnDisabled, activeTab, notification,
                                    sockets, completed, tornDown, taskHistory, enhVars>>
               /\ UNCHANGED <<config, startTime, elapsedTime, now, startReqs,
                              stopReqs, nSessions, quickStopped, cancelled>>

(***************************************************************************)
(* Specifications.  A scope names the inputs one specification draws and   *)
(* how many handler runs it follows; nothing of it is a condition of the   *)
(* program.                                                                *)
(***************************************************************************)
\* The random draws left open: the first sc.draws of each simulation.
DrawChoices(sc) ==
    IF Due("sim") /\ (sims[Head(intervals).id].step + 1) \div LogEvery <= sc.draws
    THEN 1..Len(messages) ELSE {1}

Step(sc) ==
    /\ nOps < sc.runs
    /\ nOps' = nOps + 1
    /\ \/ stopAgent /\ ignoredFrame' = FALSE
       \/ /\ ignoredStop' = FALSE
          /\ \/ \E s \in Sessions, frame \in sc.frames : onmessage(s, frame)
             \/ /\ ignoredFrame' = FALSE
                /\ \/ \E cfg \in sc.configs :
                         /\ validateConfig(cfg) /\ ~AlreadyRunning
                               => nSessions < sc.sessions
                         /\ startAgent(cfg)
                   \/ \E s \in Sessions, outcome \in sc.outcomes, throws \in sc.throws :
                         startSettled(s, outcome, throws)
                   \/ \E i \in DOMAIN stopReqs, ok \in sc.stopOks : stopSettled(i, ok)
                   \/ \E s \in Sessions : onopen(s)
                   \/ \E s \in Sessions : onerror(s)
                   \/ \E s \in Sessions : onclose(s)
                   \/ clockTick
                   \/ elapsedTick
                   \/ \E i \in DrawChoices(sc) : simulationTick(i)

\* The life cycle of sessions: every outcome of the start and stop requests and
\* of the socket, every kind of config.
LifecycleFrames ==
    { f \in Frames : f.json /\ TypeOf(f.data) \in {"complete", "log"}
                     /\ (TypeOf(f.data) = "complete" => f.data.success) }

Lifecycle ==
    [configs |-> Configs, sessions |-> MaxSessions, outcomes |-> StartOutcomes,
     throws |-> BOOLEAN, stopOks |-> BOOLEAN, frames |-> LifecycleFrames,
     draws |-> MaxRandomDraws, runs |-> MaxRuns]

Next == Step(Lifecycle)

Spec == Init /\ [][Next]_vars

\* Sessions started one after the other: one config, a backend that answers or
\* is unreachable, complete frames only; followed for more handler runs.
RestartFrames == { f \in Frames : f.json /\ TypeOf(f.data) = "complete" /\ f.data.success }

Restart ==
    [configs |-> { c \in ValidConfigs : c.repoUrl = "r1" }, sessions |-> MaxSessions,
     outcomes |-> {"ok", "network"}, throws |-> {FALSE}, stopOks |-> {TRUE},
     frames |-> RestartFrames, draws |-> MaxRandomDraws, runs |-> RestartRuns]

NextRestart == Step(Restart)

SpecRestart == Init /\ [][NextRestart]_vars

\* The events of one session's socket: every kind of frame, one config, a
\* backend that answers or is unreachable.
Events ==
    [configs |-> { c \in ValidConfigs : c.repoUrl = "r1" }, sessions |-> MaxSessions,
     outcomes |-> {"ok", "network"}, throws |-> {FALSE}, stopOks |-> {TRUE},
     frames |-> Frames, draws |-> MaxRandomDraws, runs |-> EventRuns]

NextEvents == Step(Events)

SpecEvents == Init /\ [][NextEvents]_vars

\* A backend that is never reachable and a user who only starts: sessions run
\* on their simulation, second by second, until the simulation ends them.  The
\* interval that is due always gets to run.  Which message Math.random() picks
\* is left open in the other specifications, not here.
Unreachable == [draws |-> 0]

Tick ==
    /\ \/ now < SimulationSeconds /\ clockTick
       \/ elapsedTick
       \/ \E i \in DrawChoices(Unreachable) : simulationTick(i)
    /\ UNCHANGED <<nOps, ignoredStop, ignoredFrame>>

NextSimulation ==
    \/ /\ \/ \E cfg \in { c \in ValidConfigs : c.repoUrl = "r1" } :
                /\ nSessions < MaxSessions
                /\ startAgent(cfg)
          \/ \E s \in Sessions, outcome \in {"non2xx", "network"} :
                startSettled(s, outcome, FALSE)
       /\ UNCHANGED <<nOps, ignoredStop, ignoredFrame>>
    \/ Tick

SpecSimulation == Init /\ [][NextSimulation]_vars /\ WF_vars(Tick)

(***************************************************************************)
(* Progress persistence of UIEnhancements: saveProgress(), restoreProgress() *)
(* and the page load that runs it.                                         *)
(***************************************************************************)
\* A class name that starts with 'log-', as that prefix and the rest.
classList(e) == << <<"log-", "entry">>, <<"log-", e.level>> >>

\* Array.prototype.find with c => c.startsWith(prefix).
FindStartsWith(classes, prefix) ==
    classes[CHOOSE k \in DOMAIN classes :
                /\ classes[k][1] = prefix
                /\ \A j \in 1..(k - 1) : classes[j][1] # prefix]

\* What saveProgress() keeps of a .log-entry element (and its time, left out).
SavedLog(e) == [message |-> e.message, level |-> FindStartsWith(classList(e), "log-")]

Snapshot ==
    [config |-> config, startTime |-> startTime, phase |-> currentPhase,
     logs |-> [k \in DOMAIN log |-> SavedLog(log[k])]]

\* saveProgress(); JSON.stringify and JSON.parse return what they are given.
saveProgress == rfsn_progress' = [json |-> TRUE, data |-> Snapshot]

\* An interval callback that saves whether or not a session is Running.
snapshotTickUngated ==
    /\ resume # "pending"
    /\ IF rfsn_persistence # "false"
       THEN saveProgress ELSE UNCHANGED rfsn_progress
    /\ UNCHANGED <<appVars, domVars, envVars, histVars, form, historyContent, toast,
                   rfsn_persistence, rfsn_retention, rfsn_history, resume, cntVars,
                   completed, quickStopped, tornDown, cancelled>>

\* The callback of setupProgressPersistence()'s interval, every 5 seconds.
snapshotTick ==
    /\ resume # "pending"
    /\ IF isRunning /\ rfsn_persistence # "false"
       THEN saveProgress ELSE UNCHANGED rfsn_progress
    /\ UNCHANGED <<appVars, domVars, envVars, histVars, form, historyContent, toast,
                   rfsn_persistence, rfsn_retention, rfsn_history, resume, cntVars,
                   completed, quickStopped, tornDown, cancelled>>

\* saveSettings(): the values of the settings dialog are stored.
saveSettings(persistence, retention) ==
    /\ resume # "pending"
    /\ rfsn_persistence' = BoolStr(persistence)
    /\ rfsn_retention' = retention
    /\ toast' = <<"Settings saved", "success">>
    /\ UNCHANGED <<appVars, domVars, envVars, cntVars, histVars, form,
                   historyContent, rfsn_progress, rfsn_history, resume, completed,
                   quickStopped, tornDown, cancelled>>

\* applyConfig(config): the fields the config defines are written to the form.
applyConfig(f, cfg) == [id \in DOMAIN f |-> IF id \in DOMAIN cfg THEN cfg[id] ELSE f[id]]

\* level.replace('log-', '') on a class name of saveProgress().
ReplaceLogPrefix(level) == IF level[1] = "log-" THEN level[2] ELSE level

\* progress.logs.forEach(log => addLog(log.level.replace('log-', ''), log.message))
RECURSIVE Replay(_, _)
Replay(l, logs) ==
    IF logs = <<>> THEN l
    ELSE Replay(addLog(l, ReplaceLogPrefix(Head(logs).level), Head(logs).message),
                Tail(logs))

\* A restoreProgress() that does not ask.
RestoresUnasked(saved, answer) == saved # NoItem /\ saved.json

\* restoreProgress() applies what is stored if it parses and confirm() returns true.
Restores(saved, answer) == saved # NoItem /\ saved.json /\ answer

\* A restoreProgress() that also resumes the session it restores.
restoreProgressResumes(answer) ==
    /\ IF Restores(rfsn_progress, answer) THEN
          /\ form' = applyConfig(form, rfsn_progress.data.config)
          /\ currentPhase' = rfsn_progress.data.phase
          /\ log' = Replay(log, rfsn_progress.data.logs)
          /\ toast' = <<"Progress restored", "success">>
          /\ resume' = "restored"
          /\ isRunning' = TRUE
       ELSE
          /\ resume' = IF rfsn_progress = NoItem THEN "none"
                       ELSE IF rfsn_progress.json THEN "declined" ELSE "failed"
          /\ UNCHANGED <<form, currentPhase, log, toast, isRunning>>
    /\ UNCHANGED <<config, startTime, timerInterval, websocket, stepsCompleted,
                   patchesTried, progressFill, elapsedTime, status, startBtnDisabled,
                   activeTab, notification, envVars, storageVars, cntVars,
                   completed, quickStopped, tornDown, cancelled>>

\* restoreProgress(); answer is what the user answers to confirm().
restoreProgress(answer) ==
    /\ IF Restores(rfsn_progress, answer) THEN
          /\ form' = applyConfig(form, rfsn_progress.data.config)
          /\ currentPhase' = rfsn_progress.data.phase
          /\ log' = Replay(log, rfsn_progress.data.logs)
          /\ toast' = <<"Progress restored", "success">>
          /\ resume' = "restored"
       ELSE
          /\ resume' = IF rfsn_progress = NoItem THEN "none"
                       ELSE IF rfsn_progress.json THEN "declined" ELSE "failed"
          /\ UNCHANGED <<form, currentPhase, log, toast>>
    /\ UNCHANGED <<appVars, stepsCompleted, patchesTried, progressFill, elapsedTime,
                   status, startBtnDisabled, activeTab, notification, envVars,
                   storageVars, cntVars, completed, quickStopped, tornDown, cancelled>>

\* new UIEnhancements(app), 100 ms after the page was loaded: the history is
\* read and rendered, and setupProgressPersistence() ends with restoreProgress().
UIEnhancements(answer) ==
    /\ resume = "pending"
    /\ taskHistory' = IF rfsn_history = NoItem THEN <<>> ELSE rfsn_history.data
    /\ historyContent' = taskHistory'
    /\ restoreProgress(answer)

NoConfig ==
    [repoUrl |-> "", problemStatement |-> "", llmApiKey |-> "",
     profile |-> "balanced", maxSteps |-> "12", maxTime |-> "30"]

\* The page is loaded again: what the page before had in memory is gone, its
\* requests, sockets and intervals with it; localStorage is what it was.
\* new RFSNApp() runs; new UIEnhancements() is still to come.
pageLoad ==
    /\ config' = NoConfig
    /\ isRunning' = FALSE
    /\ startTime' = NULL
    /\ timerInterval' = NULL
    /\ websocket' = NULL
    /\ log' = <<>>
    /\ currentPhase' = "-"
    /\ stepsCompleted' = <<"0", "0">>
    /\ patchesTried' = 0
    /\ progressFill' = <<0, 1>>
    /\ elapsedTime' = <<0, 0>>
    /\ status' = "idle"
    /\ startBtnDisabled' = FALSE
    /\ activeTab' = "config"
    /\ notification' = <<"", "">>
    /\ intervals' = <<Interval("clock", 0)>>
    /\ startReqs' = {}
    /\ stopReqs' = <<>>
    /\ sockets' = [s \in Sessions |-> IF sockets[s] = "none" THEN "none" ELSE "closed"]
    /\ sims' = [s \in Sessions |->
                  IF sims[s].state = "active"
                  THEN [sims[s] EXCEPT !.state = "cleared"] ELSE sims[s]]
    /\ taskHistory' = <<>>
    /\ historyContent' = <<>>
    /\ form' = NoConfig
    /\ toast' = <<"", "">>
    /\ resume' = "pending"
    /\ UNCHANGED <<now, storageVars, cntVars, completed, quickStopped, tornDown,
                   cancelled>>

\* A session whose socket delivers log and error frames until the log
\* container has overflowed; the error frames are few, to tell entries apart.
LogFrames == { f \in Frames : f.json /\ TypeOf(f.data) \in {"log", "error"} }

ErrorEntries == { k \in DOMAIN log : log[k].level = "error" }

NextLog ==
    /\ nOps < LogRuns
    /\ nOps' = nOps + 1
    /\ ignoredStop' = FALSE
    /\ \/ \E s \in Sessions, frame \in LogFrames :
             /\ TypeOf(frame.data) = "error" => Cardinality(ErrorEntries) < LogMarks
             /\ onmessage(s, frame)
       \/ /\ ignoredFrame' = FALSE
          /\ \/ \E cfg \in { c \in ValidConfigs : c.repoUrl = "r1" } :
                   ~isRunning /\ startAgent(cfg)
             \/ \E s \in Sessions : startSettled(s, "ok", FALSE)
             \/ \E s \in Sessions : onopen(s)

SpecLog == Init /\ [][NextLog]_vars

\* Sessions on a backend that answers, snapshots of them, and page loads.
PersistFrames ==
    { f \in Frames : /\ f.json
                     /\ TypeOf(f.data) \in {"phase", "log", "complete"}
                     /\ TypeOf(f.data) = "phase" => f.data.phase = "PLAN"
                     /\ TypeOf(f.data) = "complete" => f.data.success }

\* The page was just loaded with nothing stored, or with something that does
\* not parse; new UIEnhancements() is still to come.
InitStored ==
    /\ Constructed
    /\ rfsn_progress \in {NoItem, [json |-> FALSE]}
    /\ rfsn_persistence = Unset
    /\ rfsn_retention = NoString
    /\ rfsn_history = NoItem
    /\ resume = "pending"

NextPersistence ==
    /\ nOps < PersistRuns
    /\ nOps' = nOps + 1
    /\ \/ stopAgent /\ ignoredFrame' = FALSE
       \/ /\ ignoredStop' = FALSE
          /\ \/ \E s \in Sessions, frame \in PersistFrames : onmessage(s, frame)
             \/ /\ ignoredFrame' = FALSE
                /\ \/ \E cfg \in { c \in ValidConfigs : c.repoUrl = "r1" } :
                         /\ ~AlreadyRunning => nSessions < MaxSessions
                         /\ startAgent(cfg)
                   \/ \E s \in Sessions : startSettled(s, "ok", FALSE)
                   \/ \E i \in DOMAIN stopReqs : stopSettled(i, TRUE)
                   \/ \E s \in Sessions : onopen(s)
                   \/ snapshotTick
                   \/ \E persistence \in BOOLEAN : saveSettings(persistence, <<>>)
                   \/ pageLoad
                   \/ \E answer \in BOOLEAN : UIEnhancements(answer)

SpecPersistence == InitStored /\ [][NextPersistence]_vars

\* ---- History ----
\* Times are in seconds. Date.now() and the retention window are in
\* milliseconds in the source, a factor of 1000 on both sides of each
\* comparison.
Day == 24 * 60 * 60

\* The retention the settings dialog shows, and addToHistory() uses, when
\* none is stored.
DefaultRetention == 30

DigitChars == <<"0", "1", "2", "3", "4", "5", "6", "7", "8", "9">>

IsDigit(c) == \E k \in DOMAIN DigitChars : DigitChars[k] = c

DigitValue(c) == (CHOOSE k \in DOMAIN DigitChars : DigitChars[k] = c) - 1

RECURSIVE LeadingDigits(_)
LeadingDigits(str) ==
    IF str = <<>> \/ ~IsDigit(Head(str)) THEN <<>>
    ELSE <<Head(str)>> \o LeadingDigits(Tail(str))

RECURSIVE Decimal(_)
Decimal(digits) ==
    IF digits = <<>> THEN 0
    ELSE Decimal(SubSeq(digits, 1, Len(digits) - 1)) * 10
         + DigitValue(digits[Len(digits)])

\* parseInt(str) of a string of characters: the number its leading digits
\* write, NaN when it has none.
parseInt(str) ==
    LET digits == LeadingDigits(str)
    IN IF digits = <<>> THEN [nan |-> TRUE, n |-> 0]
       ELSE [nan |-> FALSE, n |-> Decimal(digits)]

\* parseInt(localStorage.getItem('rfsn_retention') || 30)
Retention ==
    IF rfsn_retention = NoString \/ rfsn_retention = <<>>
    THEN [nan |-> FALSE, n |-> DefaultRetention]
    ELSE parseInt(rfsn_retention)

\* t.timestamp > cutoff, with cutoff = Date.now() - retention days; no number
\* is greater than NaN.
AfterCutoff(t, retention) ==
    /\ ~retention.nan
    /\ t.timestamp > now - retention.n * Day

\* A task handed to addToHistory().
Tasks == [success : BOOLEAN]

addToHistory(task) ==
    /\ resume # "pending"
    /\ LET record == [success |-> task.success, timestamp |-> now]
           kept == SelectSeq(<<record>> \o taskHistory,
                             LAMBDA t : AfterCutoff(t, Retention))
       IN /\ taskHistory' = kept
          /\ rfsn_history' = [json |-> TRUE, data |-> kept]
          /\ historyContent' = kept
    /\ UNCHANGED <<appVars, domVars, envVars, cntVars, form, toast, rfsn_progress,
                   rfsn_persistence, rfsn_retention, resume, completed,
                   quickStopped, tornDown, cancelled>>

\* toLowerCase() of a search query.
toLowerCase(str) ==
    CASE str = "TRUE" -> "true"
      [] str = "False" -> "false"
      [] OTHER -> str

\* The words of JSON.stringify(task).toLowerCase(); the digits of the
\* timestamp match no query made of letters.
Stringify(task) == {"success", BoolStr(task.success), "timestamp"}

\* JSON.stringify(task).toLowerCase().includes(query.toLowerCase())
Includes(task, query) ==
    \/ toLowerCase(query) = ""
    \/ toLowerCase(query) \in Stringify(task)

Queries == {"", "TRUE", "False", "patch"}

filterHistory(query) ==
    /\ resume # "pending"
    /\ historyContent' = SelectSeq(taskHistory, LAMBDA t : Includes(t, query))
    /\ UNCHANGED <<appVars, domVars, envVars, cntVars, histVars, form, toast,
                   storageVars, resume, completed, quickStopped, tornDown,
                   cancelled>>

Statuses == {"all", "success", "failed"}

filterHistoryByStatus(st) ==
    /\ resume # "pending"
    /\ historyContent' =
          IF st = "all" THEN taskHistory
          ELSE SelectSeq(taskHistory, LAMBDA t : t.success = (st = "success"))
    /\ UNCHANGED <<appVars, domVars, envVars, cntVars, histVars, form, toast,
                   storageVars, resume, completed, quickStopped, tornDown,
                   cancelled>>

\* Array.prototype.sort((a, b) => b.timestamp - a.timestamp): a stable sort,
\* here by insertion; equal timestamps keep their order.
InsertSorted(sorted, t) ==
    LET k == Cardinality({ j \in DOMAIN sorted : sorted[j].timestamp >= t.timestamp })
    IN SubSeq(sorted, 1, k) \o <<t>> \o SubSeq(sorted, k + 1, Len(sorted))

RECURSIVE SortByTimestampDesc(_)
SortByTimestampDesc(tasks) ==
    IF tasks = <<>> THEN <<>>
    ELSE InsertSorted(SortByTimestampDesc(SubSeq(tasks, 1, Len(tasks) - 1)),
                      tasks[Len(tasks)])

\* sortHistory(): this.taskHistory is sorted in place, then rendered.
sortHistory ==
    /\ resume # "pending"
    /\ taskHistory' = SortByTimestampDesc(taskHistory)
    /\ historyContent' = taskHistory'
    /\ toast' = <<"History sorted", "info">>
    /\ UNCHANGED <<appVars, domVars, envVars, cntVars, form, storageVars, resume,
                   completed, quickStopped, tornDown, cancelled>>

\* What #settingRetention.value can be: a number input gives the empty
\* string for what is not a number; min and max are not enforced on .value.
RetentionValues == {<<>>, <<"0">>, <<"1">>}

\* Time passes with nothing scheduled but the clock.
DayJumps == {1, DefaultRetention}

daysPass(d) ==
    /\ now + d * Day <= MaxDays * Day
    /\ now' = now + d * Day
    /\ UNCHANGED <<appVars, domVars, intervals, startReqs, stopReqs, sockets, sims,
                   cntVars, histVars, enhVars, completed, quickStopped, tornDown,
                   cancelled>>

\* Date.now() is the wall clock, which is not monotonic: the system time is
\* set back by a day.
clockSetBack ==
    /\ now >= Day
    /\ now' = now - Day
    /\ UNCHANGED <<appVars, domVars, intervals, startReqs, stopReqs, sockets, sims,
                   cntVars, histVars, enhVars, completed, quickStopped, tornDown,
                   cancelled>>

NextHistory ==
    /\ nOps < HistoryRuns
    /\ nOps' = nOps + 1
    /\ UNCHANGED <<ignoredStop, ignoredFrame>>
    /\ \/ \E task \in Tasks : addToHistory(task)
       \/ \E query \in Queries : filterHistory(query)
       \/ \E st \in Statuses : filterHistoryByStatus(st)
       \/ sortHistory
       \/ \E retention \in RetentionValues : saveSettings(TRUE, retention)
       \/ \E d \in DayJumps : daysPass(d)
       \/ clockSetBack
       \/ pageLoad
       \/ UIEnhancements(FALSE)

SpecHistory == Init /\ [][NextHistory]_vars

(***************************************************************************)
(* Properties.                                                             *)
(***************************************************************************)
LastLog == log[Len(log)]

\* C1: startAgent() with a valid config while a session is Running is rejected:
\* isRunning, startTime, config, the elapsed timer, this.websocket and the log
\* stay as they are, and no start request, socket, simulation or interval is
\* created (nothing is queued, so nothing starts later either).
C1_StartWhileRunningRejected ==
    [][\A cfg \in Configs :
          (/\ cfg.repoUrl # "" /\ cfg.problemStatement # "" /\ cfg.llmApiKey # ""
           /\ isRunning
           /\ startAgent(cfg))
          => UNCHANGED <<isRunning, startTime, config, timerInterval, websocket, log,
                         intervals, startReqs, stopReqs, sockets, sims, nSessions>>]_vars

\* A start was rejected during the first session, which is still Running.
C1_Witness ==
    /\ isRunning
    /\ nSessions = 1
    /\ notification = <<"Agent is already running", "warning">>

\* C2: stopAgent() flips the session away from Running before its stop request
\* settles, so a session never has two stop requests outstanding.
C2_StopFlipsSynchronously ==
    /\ \A i \in DOMAIN stopReqs : stopReqs[i] = nSessions => ~isRunning
    /\ \A i, j \in DOMAIN stopReqs : stopReqs[i] = stopReqs[j] => i = j

\* C3: no complete event is handled for a session that was stopped right after
\* it was started.
C3_NoCompleteAfterImmediateStop == quickStopped \cap completed = {}

\* C4: no WebSocket is held while no session is Running: a socket that connects
\* after the session was stopped is torn down at once.
C4_NoSocketWhenStopped == ~isRunning => websocket = NULL

\* C5: a simulation created when its session was already stopped never emits an
\* event.
C5_DiscardedSimulationIsSilent ==
    \A s \in Sessions :
        (sims[s].state # "none" /\ ~sims[s].wasRunning) => sims[s].step = 0

\* C6: stopAgent() when no session is Running changes nothing: no stop request,
\* no teardown, no log entry, the same isRunning, timerInterval and websocket.
C6_StopWhenNotRunningIsNoOp ==
    [][(~isRunning /\ stopAgent)
          => UNCHANGED <<appVars, domVars, envVars, cntVars>>]_vars

\* A stopAgent() was just ignored after a session had been torn down.
C6_Witness == ignoredStop /\ nSessions >= 1 /\ ~isRunning /\ stopReqs = <<>>

\* C7: startAgent() with repoUrl, problemStatement or llmApiKey empty creates no
\* session: the controller's fields, the requests, sockets, simulations and
\* intervals are unchanged, and a stopAgent() after it still finds what it found
\* before (nothing to stop, if nothing was Running).
C7_InvalidConfigCreatesNoSession ==
    [][\A cfg \in Configs :
          (/\ cfg.repoUrl = "" \/ cfg.problemStatement = "" \/ cfg.llmApiKey = ""
           /\ startAgent(cfg))
          => /\ UNCHANGED <<appVars, envVars, cntVars, status, startBtnDisabled>>
             /\ NotRunning' = NotRunning]_vars

\* A start failed validation before any session existed.
C7_Witness ==
    /\ nSessions = 0
    /\ ~isRunning
    /\ notification = <<"Configuration errors. Check log.", "error">>
    /\ log # <<>>
    /\ LastLog.level = "error"

\* C8: when the start request of session s fails, the failure does not change
\* isRunning, a simulation of s is started, and the last log entry is the
\* warning that says so.
C8_StartFailureFallsBackToSimulation ==
    [][\A s \in Sessions, outcome \in {"non2xx", "network"} :
          startSettled(s, outcome, FALSE)
          => /\ isRunning' = isRunning
             /\ sims'[s].state = "active"
             /\ \E k \in DOMAIN intervals' : intervals'[k] = Interval("sim", s)
             /\ LastLog'.level = "warning"
             /\ LastLog'.message =
                   <<"Running in simulation mode (backend not available)">>]_vars

\* The Running session has just fallen back to its simulation.
C8_Witness ==
    /\ isRunning
    /\ nSessions \in Sessions
    /\ sims[nSessions].state = "active"
    /\ sims[nSessions].step = 0
    /\ log # <<>>
    /\ LastLog.level = "warning"
    /\ LastLog.message = <<"Running in simulation mode (backend not available)">>

\* C9: when the start request succeeded and the WebSocket of a Running session
\* fails (its constructor throws, or onerror fires), a simulation is started.
C9_SocketFailureFallsBackToSimulation ==
    [][\A s \in Sessions :
          (isRunning /\ (startSettled(s, "ok", TRUE) \/ onerror(s)))
          => \E x \in Sessions : sims'[x].state = "active"]_vars

\* C10: handling a complete event while Running leaves isRunning false, the
\* elapsed timer cancelled and this.websocket cleared, and the simulation of the
\* session that was Running emits nothing from then on.
C10_CompleteTearsSessionDown ==
    [][/\ tornDown' # tornDown
          => (~isRunning' /\ timerInterval' = NULL /\ websocket' = NULL)
       /\ \A s \in tornDown \cap Sessions : sims'[s].step = sims[s].step]_vars

\* C11: every complete event handled while a session is Running, from the socket
\* or from the simulation, puts exactly one record at the head of the history,
\* with the event's success and with its time_taken as the duration.
C11_CompleteAppendsHistoryRecord ==
    [][/\ \A s \in Sessions, f \in Frames :
             (/\ f.json /\ TypeOf(f.data) = "complete"
              /\ isRunning
              /\ onmessage(s, f))
             => /\ Len(taskHistory') = Len(taskHistory) + 1
                /\ Tail(taskHistory') = taskHistory
                /\ Head(taskHistory').success = f.data.success
                /\ Head(taskHistory').duration = f.data.time_taken
       /\ \A i \in 1..Len(messages) :
             (/\ Due("sim") /\ sims[Head(intervals).id].step + 1 >= TotalSteps
              /\ isRunning
              /\ simulationTick(i))
             => /\ Len(taskHistory') = Len(taskHistory) + 1
                /\ Tail(taskHistory') = taskHistory
                /\ Head(taskHistory').success = TRUE
                /\ Head(taskHistory').duration = Elapsed]_vars

\* C12: a complete or error frame that arrives while no session is Running only
\* adds to the log: the controller's fields, the status, the buttons, the
\* notification, the tab, the event displays, the intervals and the sockets
\* stay as they are.
C12_TerminalEventIgnoredWhenNotRunning ==
    [][\A s \in Sessions, f \in Frames :
          (/\ f.json /\ TypeOf(f.data) \in {"complete", "error"}
           /\ ~isRunning
           /\ onmessage(s, f))
          => UNCHANGED <<appVars, status, startBtnDisabled, notification, activeTab,
                         currentPhase, stepsCompleted, patchesTried, progressFill,
                         intervals, sockets>>]_vars

\* C13: a progress event merges field by field: the current step, the total
\* steps, the patches and the progress percent each show the event's value if
\* the event carries that field and keep what they showed if it does not.
C13_ProgressMergesFieldByField ==
    [][\A s \in Sessions, f \in Frames :
          (/\ f.json /\ TypeOf(f.data) = "progress"
           /\ onmessage(s, f))
          => /\ stepsCompleted'[1] = IF "current_step" \in DOMAIN f.data
                                     THEN ToString(f.data.current_step)
                                     ELSE stepsCompleted[1]
             /\ stepsCompleted'[2] = IF "total_steps" \in DOMAIN f.data
                                     THEN ToString(f.data.total_steps)
                                     ELSE stepsCompleted[2]
             /\ patchesTried' = IF "patches" \in DOMAIN f.data
                                THEN f.data.patches ELSE patchesTried
             /\ progressFill' = IF "progress" \in DOMAIN f.data
                                THEN f.data.progress ELSE progressFill]_vars

\* C14: a frame that is not JSON, or has no type or an unknown one, handled
\* while its session is Running, does not end the session: isRunning stays true,
\* the socket stays open, the elapsed timer stays active, and since nothing else
\* changes either, the frames after it are handled as if it had not arrived.
C14_MalformedFrameKeepsSession ==
    [][\A s \in Sessions, f \in Frames :
          (/\ ~f.json \/ ("type" \in DOMAIN f.data => f.data.type \notin KnownTypes)
           /\ isRunning /\ websocket = s
           /\ onmessage(s, f))
          => /\ isRunning' /\ sockets'[s] = "open" /\ websocket' = s
             /\ timerInterval' = timerInterval /\ timerInterval' # NULL
             /\ \E k \in DOMAIN intervals' :
                   intervals'[k] = Interval("elapsed", timerInterval')
             /\ UNCHANGED <<appVars, domVars, envVars, histVars>>]_vars

\* A malformed frame was just handled on the open socket of the Running session.
C14_Witness ==
    /\ ignoredFrame
    /\ isRunning
    /\ websocket # NULL
    /\ sockets[websocket] = "open"
    /\ timerInterval # NULL

\* C15: a frame that is not JSON, or has no type, adds an error-level entry to
\* the log.
C15_MalformedFrameLogsError ==
    [][\A s \in Sessions, f \in Frames :
          (/\ ~f.json \/ "type" \notin DOMAIN f.data
           /\ onmessage(s, f))
          => /\ log' # log
             /\ LastLog'.level = "error"]_vars

\* C16: an error event handled while a session is Running only appends an
\* error-level entry with its message to the log: isRunning, the elapsed timer,
\* the socket and every other field stay as they are.
C16_ErrorEventIsNotTerminal ==
    [][\A s \in Sessions, f \in Frames :
          (/\ f.json /\ "type" \in DOMAIN f.data /\ f.data.type = "error"
           /\ isRunning
           /\ onmessage(s, f))
          => /\ log' = addLog(log, "error", <<f.data.message>>)
             /\ UNCHANGED <<appVars, currentPhase, stepsCompleted, patchesTried,
                            progressFill, elapsedTime, status, startBtnDisabled,
                            activeTab, notification, envVars, histVars>>]_vars

\* An error event was just logged and its session is still Running, with its
\* socket open and its timer active.
C16_Witness ==
    /\ isRunning
    /\ websocket # NULL
    /\ sockets[websocket] = "open"
    /\ timerInterval # NULL
    /\ log # <<>>
    /\ LastLog = [level |-> "error", message |-> <<"e">>]

\* C17: with an unreachable backend and no stop, every tick of a session's
\* simulation advances its step by one; the complete event is handled on the
\* tick that reaches step 30 and on no other, with success true, as the last
\* thing the simulation does (its interval is cleared, so no tick follows); and
\* a simulation that is given the time reaches that tick.
C17_SimulationCompletesAfterTotalSteps ==
    /\ [][\A i \in 1..Len(messages) :
             (Due("sim") /\ simulationTick(i))
             => LET s == Head(intervals).id
                IN /\ sims'[s].step = sims[s].step + 1
                   /\ sims'[s].step <= TotalSteps
                   /\ (s \in completed' /\ s \notin completed)
                         <=> sims'[s].step = TotalSteps
                   /\ sims'[s].step = TotalSteps
                         => /\ sims'[s].state = "cleared"
                            /\ \A k \in DOMAIN intervals' :
                                  intervals'[k] # Interval("sim", s)
                            /\ log'[Len(log') - 2] =
                                  [level |-> "info", message |-> <<"Success: ", "true">>]
                            /\ ~isRunning']_vars
    /\ [](\A s \in Sessions :
             /\ s \in completed => sims[s].step = TotalSteps /\ sims[s].state = "cleared"
             /\ sims[s].state = "cleared" =>
                   \A k \in DOMAIN intervals : intervals[k] # Interval("sim", s))
    /\ \A s \in Sessions :
          (sims[s].state = "active" /\ now + TotalSteps < SimulationSeconds)
             ~> (s \in completed)

\* A simulation has run its 30 steps and ended its session.
C17_Witness ==
    \E s \in Sessions :
        /\ s \in completed
        /\ sims[s].step = TotalSteps
        /\ progressFill = <<100, 1>>
        /\ patchesTried = TotalSteps \div PatchEvery
        /\ ~isRunning
        /\ LastLog.message = <<"Agent stopped">>

\* C18: once stopAgent() has cleaned up while a simulation was under way, that
\* simulation emits nothing more: its step does not advance and no complete
\* event of it is handled, whatever runs afterwards.
C18_StoppedSimulationIsSilent ==
    [][\A s \in cancelled :
          /\ sims'[s].step = sims[s].step
          /\ s \in completed' => s \in completed]_vars

\* C19: when the stop request of stopAgent() settles, whether it was answered or
\* failed, no session is Running any more, the elapsed timer is cancelled and
\* the socket the controller held is closed and released.
C19_StopAlwaysStopsLocally ==
    [][\A i \in DOMAIN stopReqs, ok \in BOOLEAN :
          stopSettled(i, ok)
          => /\ ~isRunning'
             /\ timerInterval' = NULL
             /\ \A k \in DOMAIN intervals' : intervals'[k].kind # "elapsed"
             /\ websocket' = NULL
             /\ websocket # NULL => sockets'[websocket] \notin {"connecting", "open"}]_vars

\* A stop request has just failed and the session was stopped locally, its
\* socket closing.
C19_Witness ==
    /\ ~isRunning
    /\ websocket = NULL
    /\ Len(log) >= 2
    /\ LastLog.message = <<"Agent stopped">>
    /\ log[Len(log) - 1].message = <<"Could not reach backend, stopping locally">>
    /\ \E s \in Sessions : sockets[s] = "closing"

\* C20: the elapsed timer is active exactly while a session is Running:
\* timerInterval is non-null iff isRunning, a Running session has exactly one
\* elapsed interval, the one timerInterval names, and no elapsed interval
\* exists (so none fires) when no session is Running.
C20_NoTimerLeak ==
    /\ (timerInterval # NULL) <=> isRunning
    /\ \A k \in DOMAIN intervals :
          intervals[k].kind = "elapsed" => isRunning /\ intervals[k].id = timerInterval
    /\ Cardinality({ k \in DOMAIN intervals : intervals[k].kind = "elapsed" })
          = IF isRunning THEN 1 ELSE 0

\* A second session is Running on its own timer after the first was torn down.
C20_Witness ==
    /\ isRunning
    /\ nSessions >= 2
    /\ timerInterval = nSessions
    /\ elapsedTime # <<0, 0>>

\* C21: the log never holds more than 100 entries, and an entry that arrives
\* when it is full evicts the oldest one: after each appended entry the log is
\* the log before it with the new entry at the end, less its first entry if it
\* was full.
C21_LogKeepsLatestHundred ==
    /\ [](Len(log) <= LogCapacity)
    /\ [][\A s \in Sessions, f \in Frames :
             (/\ f.json /\ TypeOf(f.data) \in {"log", "error"}
              /\ onmessage(s, f))
             => LET e == [level |-> IF f.data.type = "log" THEN f.data.level ELSE "error",
                          message |-> <<f.data.message>>]
                IN log' = IF Len(log) < LogCapacity
                          THEN Append(log, e) ELSE Append(Tail(log), e)]_vars

\* The log is full, its first entries were evicted, and an error entry that
\* arrived before the last one is still in it.
C21_Witness ==
    /\ Len(log) = LogCapacity
    /\ log[1].message # <<"Log cleared">>
    /\ log[1].message # <<"Starting RFSN Agent...">>
    /\ \E k \in 1..(LogCapacity - 1) : log[k].level = "error"

\* A parseable snapshot is stored under rfsn_progress.
Stored == rfsn_progress # NoItem /\ rfsn_progress.json

\* C22: the teardown of a session that was stopped or that completed removes
\* the stored snapshot: after the step that tears a Running session down
\* no snapshot is stored under rfsn_progress, so the page loaded next has
\* nothing to offer.
C22_TeardownRemovesSnapshot ==
    [][(/\ isRunning /\ ~isRunning'
        /\ log' # <<>> /\ log'[Len(log')].message = <<"Agent stopped">>)
       => ~(rfsn_progress' # NoItem /\ rfsn_progress'.json)]_vars

\* C23: a snapshot, loaded into a page that holds nothing, gives back the
\* configuration, the phase and the log (level and message of each entry, in
\* order) of the state it was taken from.
C23_SnapshotRoundTrip ==
    [][(snapshotTick /\ isRunning /\ rfsn_persistence # "false")
       => LET progress == rfsn_progress'.data
          IN /\ applyConfig(NoConfig, progress.config) = config
             /\ progress.phase = currentPhase
             /\ Replay(<<>>, progress.logs) = log]_vars

\* C24: what is stored is applied only when the user accepts: when new
\* UIEnhancements() runs and the user declines, or nothing parseable is
\* stored, the form, the configuration, the phase and the log stay as they are.
C24_DeclinedRestoreChangesNothing ==
    [][\A answer \in BOOLEAN :
          (/\ UIEnhancements(answer)
           /\ (~answer \/ rfsn_progress = NoItem \/ ~rfsn_progress.json))
          => UNCHANGED <<form, config, currentPhase, log, toast>>]_vars

\* The user declined a parseable snapshot, which is still stored, and the
\* page shows nothing of it.
C24_Witness ==
    /\ resume = "declined"
    /\ Stored
    /\ rfsn_progress.data.logs # <<>>
    /\ log = <<>>
    /\ currentPhase = "-"
    /\ form = NoConfig

\* C25: an accepted restore only displays: it opens no WebSocket, sends no
\* start request, starts no simulation and no timer, and a page that was not
\* Running is not Running after it.
C25_RestoreIsDisplayOnly ==
    [][(UIEnhancements(TRUE) /\ rfsn_progress # NoItem /\ rfsn_progress.json)
       => /\ UNCHANGED <<isRunning, websocket, timerInterval, startTime, sockets,
                         startReqs, stopReqs, sims, intervals, nSessions, status>>
          /\ resume' = "restored"]_vars

\* A snapshot was restored into a page that runs nothing: the log and the
\* phase of the snapshot are shown, no session is Running, no socket is open,
\* no simulation is active and only the clock is scheduled.
C25_Witness ==
    /\ resume = "restored"
    /\ toast = <<"Progress restored", "success">>
    /\ log # <<>>
    /\ currentPhase = "PLAN"
    /\ ~isRunning
    /\ websocket = NULL
    /\ timerInterval = NULL
    /\ startReqs = {}
    /\ \A s \in Sessions : sockets[s] \notin {"connecting", "open"}
                            /\ sims[s].state # "active"
    /\ Len(intervals) = 1

\* C26: addToHistory(record), with a retention of at least one day stored or
\* the default of 30 days, leaves the history as the record followed by the
\* records that were there and are not older than the retention window, in
\* the order they had, and stores that list under rfsn_history.
C26_AppendEvictsOlderThanWindow ==
    [][\A task \in Tasks :
          (/\ addToHistory(task)
           /\ ~Retention.nan /\ Retention.n >= 1)
          => LET record == [success |-> task.success, timestamp |-> now]
                 window == Retention.n * Day
                 expected == <<record>> \o
                             SelectSeq(taskHistory,
                                       LAMBDA t : now - t.timestamp <= window)
             IN /\ taskHistory' = expected
                /\ rfsn_history' = [json |-> TRUE, data |-> expected]]_vars

\* C27: once the history is loaded, no record in it is older than the
\* retention window, whatever was appended and however much time has passed.
C27_HistoryWithinRetention ==
    (resume # "pending" /\ ~Retention.nan)
    => \A k \in DOMAIN taskHistory :
          now - taskHistory[k].timestamp <= Retention.n * Day

\* C28: filterHistory, filterHistoryByStatus and sortHistory change neither
\* the history in memory nor the stored one, in content or in order.
C28_ViewsDoNotMutate ==
    [][(\/ \E query \in Queries : filterHistory(query)
        \/ \E st \in Statuses : filterHistoryByStatus(st)
        \/ sortHistory)
       => UNCHANGED <<taskHistory, rfsn_history>>]_vars

\* C29: every tick of a running simulation emits one progress event: its
\* step is one more than on the tick before and at most 30, the patches shown
\* are those of that step, and the progress shown is not less than what the
\* tick before showed, never more than 100 percent, and 100 on the last tick.
C29_SimulationProgressIsMonotone ==
    [][\A i \in 1..Len(messages) :
          (Due("sim") /\ isRunning /\ simulationTick(i))
          => LET s == Head(intervals).id
                 step == sims'[s].step
             IN /\ step = sims[s].step + 1
                /\ step <= TotalSteps
                /\ patchesTried' = step \div PatchEvery
                /\ progressFill'[1] <= 100 * progressFill'[2]
                /\ step = TotalSteps => progressFill' = <<100, 1>>
                /\ sims[s].step >= 1
                      => progressFill[1] * progressFill'[2]
                            <= progressFill'[1] * progressFill[2]]_vars

\* A simulation is half way: step 15 of 30, 50 percent, 3 patches.
C29_Witness ==
    \E s \in Sessions :
        /\ isRunning
        /\ sims[s].state = "active"
        /\ sims[s].step = TotalSteps \div 2
        /\ progressFill = <<50, 1>>
        /\ patchesTried = 3

\* C30: a running simulation enters a phase on its first tick and on every
\* third tick after it until the list is through, in the order INGEST,
\* LOCALIZE, PLAN, PATCH, TEST, DIAGNOSE, FINALIZE, each once; no other tick
\* changes the phase; and a simulation that completed has entered all seven.
C30_SimulationPhasesInOrder ==
    /\ [][\A i \in 1..Len(messages) :
             (Due("sim") /\ isRunning /\ simulationTick(i))
             => LET s == Head(intervals).id
                    ticks == sims[s].step
                    order == <<"INGEST", "LOCALIZE", "PLAN", "PATCH", "TEST",
                               "DIAGNOSE", "FINALIZE">>
                IN IF ticks % 3 = 0 /\ ticks \div 3 < 7
                   THEN /\ currentPhase' = order[ticks \div 3 + 1]
                        /\ sims'[s].phaseIndex = ticks \div 3 + 1
                        /\ \E k \in {Len(log') - 1, Len(log')} :
                              log'[k] = [level |-> "info",
                                         message |-> <<"Entering phase: ",
                                                       order[ticks \div 3 + 1]>>]
                   ELSE /\ currentPhase' = currentPhase
                        /\ sims'[s].phaseIndex = sims[s].phaseIndex]_vars
    /\ [](\A s \in Sessions :
             /\ sims[s].phaseIndex =
                   IF sims[s].step >= 19 THEN 7 ELSE (sims[s].step + 2) \div 3
             /\ s \in completed => sims[s].phaseIndex = 7)

\* A simulation has entered the last phase and is not yet complete.
C30_Witness ==
    \E s \in Sessions :
        /\ isRunning
        /\ sims[s].state = "active"
        /\ sims[s].step \in 19..(TotalSteps - 1)
        /\ sims[s].phaseIndex = 7
        /\ currentPhase = "FINALIZE"
        /\ s \notin completed

\* C31: the simulation is deterministic: what a tick of a running simulation
\* emits, the log message included, depends on nothing but the state the tick
\* finds, so the step a tick takes is the step it takes whatever
\* Math.random() returns.
C31_SimulationIsDeterministic ==
    [][(\E i \in 1..Len(messages) : Due("sim") /\ isRunning /\ simulationTick(i))
       => \A j \in 1..Len(messages) : simulationTick(j)]_vars

\* C32: what is stored under rfsn_progress changes only in a run of the
\* snapshot interval's callback, only while a session is Running and
\* persistence is not switched off, and what is stored then is the one
\* snapshot of the state the callback finds, in place of what was there.
C32_SnapshotOnlyWhileRunning ==
    [][rfsn_progress' # rfsn_progress
       => /\ isRunning
          /\ rfsn_persistence # "false"
          /\ rfsn_progress' =
                [json |-> TRUE,
                 data |-> [config |-> config, startTime |-> startTime,
                           phase |-> currentPhase,
                           logs |-> [k \in DOMAIN log |->
                                       [message |-> log[k].message,
                                        level |-> <<"log-", "entry">>]]]]
          /\ UNCHANGED <<appVars, domVars, envVars>>]_vars

\* A snapshot was written at the start of a session, persistence was then
\* switched off, and the session went on to a phase the snapshot does not have.
C32_Witness ==
    /\ isRunning
    /\ rfsn_persistence = "false"
    /\ Stored
    /\ rfsn_progress.data.phase = "-"
    /\ currentPhase = "PLAN"

\* C33: a phase event overwrites: whatever the phase shown before, after a
\* phase frame the current phase is the phase of the frame, one info line
\* naming that phase was appended to the log, and isRunning is what it was.
C33_PhaseEventsOverwrite ==
    [][\A s \in Sessions, f \in Frames :
          (/\ f.json /\ "type" \in DOMAIN f.data /\ f.data.type = "phase"
           /\ onmessage(s, f))
          => /\ currentPhase' = f.data.phase
             /\ LET e == [level |-> "info", message |-> <<"Phase: ", f.data.phase>>]
                IN log' = IF Len(log) < LogCapacity
                          THEN Append(log, e) ELSE Append(Tail(log), e)
             /\ isRunning' = isRunning]_vars

\* Phase frames arrived out of order and repeated: TEST, then PLAN, then PLAN
\* again; the phase shown is the last one.
C33_Witness ==
    /\ isRunning
    /\ currentPhase = "PLAN"
    /\ \E k \in 1..(Len(log) - 2) :
          /\ log[k].message = <<"Phase: ", "TEST">>
          /\ log[k + 1].message = <<"Phase: ", "PLAN">>
          /\ log[k + 2].message = <<"Phase: ", "PLAN">>
          /\ k + 2 = Len(log)

\* C34: at most one event source feeds the controller at a time: the active
\* simulation intervals and the open sockets together are never more than one.
C34_SingleEventSource ==
    Cardinality({ s \in Sessions : sims[s].state = "active" })
    + Cardinality({ s \in Sessions : sockets[s] = "open" }) <= 1

\* C35: the teardown of a stopAgent() call ends only the session that was
\* Running when it was called: when its stop request settles after that
\* session ended by a complete event and a later session is Running, the later
\* session is still Running.
C35_StopEndsOnlyItsSession ==
    [][\A i \in DOMAIN stopReqs, ok \in BOOLEAN :
          (/\ stopSettled(i, ok)
           /\ stopReqs[i] \in completed
           /\ stopReqs[i] < nSessions
           /\ isRunning)
          => isRunning']_vars

\* C36: a Running session of the live channel does not stay without an event
\* source: there is no state in which a session is Running, its socket is
\* closed with no complete event handled, no socket is open or connecting, no
\* simulation is active and no request is outstanding whose settling could
\* end the session or give it a source.
C36_NoSessionWithoutSource ==
    ~(/\ isRunning
      /\ sockets[nSessions] = "closed"
      /\ nSessions \notin completed
      /\ startReqs = {}
      /\ stopReqs = <<>>
      /\ \A s \in Sessions : /\ sims[s].state # "active"
                             /\ sockets[s] \notin {"connecting", "open"})

\* C37: a session starts from clean fields: right after a startAgent() that
\* started a session, the phase, the steps completed, the patches tried and
\* the progress shown are those of a page that has run nothing.
C37_SessionStartsClean ==
    [][\A cfg \in Configs :
          (startAgent(cfg) /\ ~isRunning /\ isRunning')
          => /\ currentPhase' = "-"
             /\ stepsCompleted' = <<"0", "0">>
             /\ patchesTried' = 0
             /\ progressFill' = <<0, 1>>]_vars

\* C38: addToHistory() keeps the record it appends: whatever retention is
\* stored, after the call the new record is the first of the history in
\* memory and of the history stored under rfsn_history.
C38_AppendKeepsNewRecord ==
    [][\A task \in Tasks :
          addToHistory(task)
          => LET record == [success |-> task.success, timestamp |-> now]
             IN /\ taskHistory' # <<>>
                /\ Head(taskHistory') = record
                /\ rfsn_history'.data # <<>>
                /\ Head(rfsn_history'.data) = record]_vars

====
